---- MODULE Spec2Model ----
(***************************************************************************)
(* Model of src/src/nodes/tahoma.ts: the 'tahoma' Node-RED node.           *)
(*                                                                         *)
(*   - generateInstructionsFromPayload (the instruction resolver),         *)
(*   - the 'input' handler (the adapter) with its low-speed override,      *)
(*   - validateStatus / continueWhenCompleted (the completion tracker),    *)
(*   - the gateway client (SomfyApi) and the gateway behind it, which are  *)
(*     not part of the source file and are modelled from the spec (§6).    *)
(*                                                                         *)
(* JavaScript runs the node on one event loop: a handler or callback runs  *)
(* to completion, and the promise reactions it queues run before the next  *)
(* timer or network callback.                                              *)
(***************************************************************************)
EXTENDS Integers, Sequences, FiniteSets, TLC

(***************************************************************************)
(* Bounds of the model.                                                    *)
(***************************************************************************)
\* Number of messages delivered to the node (invocations of the handler).
NumInv == 2
\* Number of messages delivered in the specification with fairness, under
\* which the liveness properties are checked.
LiveInv == 1
\* Number of messages delivered in the specification with fairness and
\* overlapping invocations.
OverlapInv == 2
\* The observers of the polling loop count exactly below MaxProbes and stay
\* at MaxProbes from there on ("MaxProbes or more"); polling is not cut.
MaxProbes == 4
\* Longest text drawn for a numeric payload field in the specification of
\* the resolver and of the handler's command.
MaxTextLen == 2

(***************************************************************************)
(* JavaScript values.                                                      *)
(***************************************************************************)
\* A text is a sequence of characters, each a string; a label is a sequence of
\* string chunks (the literal parts of a template string and the characters
\* of the interpolated payload field).
\* A JavaScript number that is an integer, and the not-a-number value.
Num(n) == [nan |-> FALSE, v |-> n]
NaN == [nan |-> TRUE, v |-> 0]

DigitVal ==
  ("0" :> 0) @@ ("1" :> 1) @@ ("2" :> 2) @@ ("3" :> 3) @@ ("4" :> 4) @@
  ("5" :> 5) @@ ("6" :> 6) @@ ("7" :> 7) @@ ("8" :> 8) @@ ("9" :> 9)

IsDigit(c) == c \in DOMAIN DigitVal

\* The characters parseInt skips in front of the number: the white space
\* and the line terminators of ECMAScript (StrWhiteSpaceChar).  A character
\* that has no escape in a string here is written as its code point.
WhiteSpace ==
  {"\t", "\n", "U+000B", "\f", "\r", " ", "U+00A0", "U+1680",
   "U+2000", "U+2001", "U+2002", "U+2003", "U+2004", "U+2005", "U+2006",
   "U+2007", "U+2008", "U+2009", "U+200A",
   "U+2028", "U+2029", "U+202F", "U+205F", "U+3000", "U+FEFF"}

RECURSIVE TrimStart(_)
TrimStart(s) ==
  IF s # <<>> /\ Head(s) \in WhiteSpace THEN TrimStart(Tail(s)) ELSE s

\* The longest prefix of s made of decimal digits.
RECURSIVE DigitPrefix(_)
DigitPrefix(s) ==
  IF s # <<>> /\ IsDigit(Head(s))
  THEN <<Head(s)>> \o DigitPrefix(Tail(s))
  ELSE <<>>

\* The value of a sequence of decimal digits, acc being the value so far.
RECURSIVE DigitsValue(_, _)
DigitsValue(ds, acc) ==
  IF ds = <<>> THEN acc
  ELSE DigitsValue(Tail(ds), 10 * acc + DigitVal[Head(ds)])

\* parseInt(text, 10): leading white space is skipped, one sign is read,
\* then the longest run of digits; no digit gives NaN, and whatever follows
\* the digits is ignored.
parseInt(text) ==
  LET t == TrimStart(text)
      signed == t # <<>> /\ Head(t) \in {"+", "-"}
      body == IF signed THEN Tail(t) ELSE t
      ds == DigitPrefix(body)
      mag == DigitsValue(ds, 0)
  IN IF ds = <<>> THEN NaN
     ELSE IF signed /\ Head(t) = "-" THEN Num(0 - mag) ELSE Num(mag)

\* JavaScript's x || 0 for x a number or undefined: 0, NaN and undefined
\* are falsy.
OrZero(defined, x) ==
  IF ~defined \/ x.nan \/ x.v = 0 THEN Num(0) ELSE x

(***************************************************************************)
(* The instruction resolver.                                               *)
(***************************************************************************)
\* enum TahomaCommands
OPEN == "open"
CLOSE == "close"
ROTATION == "rotation"
STOP == "stop"
SET_CLOSURE == "setClosure"
SET_CLOSURE_AND_ORIENTATION == "setClosureAndOrientation"
WINK == "wink"

\* The null instruction.
Null == [null |-> TRUE]

\* A default arm that falls into the 'stop' case.
defaultStop ==
  [command |-> "stop",
   labels |-> [done |-> <<"Stopped">>, progress |-> <<"Stopping...">>]]

\* The default arm of the resolver's switch.
defaultInstructions == Null

\* The action strings of the switch, and one that is not in it.
KnownActions ==
  {"open", "close", "customPosition", "customRotation", "customOrientation",
   "customClosureAndOrientation", "stop", "wink"}
Actions == KnownActions \cup {"bogus"}

\* The parameters of customClosureAndOrientation with the two swapped.
orientationAndClosureParameters(payload) ==
  <<parseInt(payload.orientation), parseInt(payload.position)>>

\* The parameters of customClosureAndOrientation (line 181).
closureAndOrientationParameters(payload) ==
  <<parseInt(payload.position), parseInt(payload.orientation)>>

\* An instruction is a record; expectedState and parameters are fields that
\* some instructions do not have.
generateInstructionsFromPayload(payload) ==
  CASE payload.action = "open" ->
         [command |-> OPEN,
          expectedState |-> [open |-> TRUE, position |-> Num(0)],
          labels |-> [done |-> <<"Open">>, progress |-> <<"Opening...">>]]
    [] payload.action = "close" ->
         [command |-> CLOSE,
          expectedState |-> [open |-> FALSE, position |-> Num(100)],
          labels |-> [done |-> <<"Closed">>, progress |-> <<"Closing...">>]]
    [] payload.action = "customPosition" ->
         [command |-> SET_CLOSURE,
          expectedState |->
            [open |-> TRUE, position |-> parseInt(payload.position)],
          labels |-> [done |-> <<"Set to ">> \o payload.position,
                      progress |-> <<"Setting to ">> \o payload.position],
          parameters |-> <<parseInt(payload.position)>>]
    [] payload.action \in {"customRotation", "customOrientation"} ->
         [command |-> ROTATION,
          expectedState |-> [orientation |-> parseInt(payload.orientation)],
          labels |->
            [done |-> <<"Rotated to ">> \o payload.orientation,
             progress |->
               <<"Rotating to ">> \o payload.orientation \o <<"...">>],
          parameters |-> <<parseInt(payload.orientation)>>]
    [] payload.action = "customClosureAndOrientation" ->
         [command |-> SET_CLOSURE_AND_ORIENTATION,
          expectedState |->
            [position |-> parseInt(payload.position),
             orientation |-> parseInt(payload.orientation)],
          labels |->
            [done |-> <<"Set to position:">> \o payload.position
                        \o <<", orientation:">> \o payload.orientation,
             progress |-> <<"Moving to position:">> \o payload.position
                        \o <<", orientation:">> \o payload.orientation
                        \o <<"...">>],
          parameters |-> closureAndOrientationParameters(payload)]
    [] payload.action = "stop" ->
         [command |-> STOP,
          labels |-> [done |-> <<"Stopped">>, progress |-> <<"Stopping...">>]]
    [] payload.action = "wink" ->
         [command |-> WINK,
          expectedState |-> [repetitions |-> parseInt(payload.repetitions)],
          labels |->
            [done |-> <<"Stopped">>,
             progress |->
               <<"Winking ">> \o payload.repetitions \o <<" time(s)">>],
          parameters |-> <<parseInt(payload.repetitions)>>]
    [] OTHER -> defaultInstructions

\* A handler that takes every instruction to carry an expected state.
HasExpectedStateAlways(instructions) == TRUE

\* !instructions.expectedState
HasExpectedState(instructions) == "expectedState" \in DOMAIN instructions

\* instructions.parameters || []  and the low-speed override of the handler.
buildCommand(payload, instructions) ==
  IF payload.lowspeed /\ instructions.command # "stop"
  THEN LET es == instructions.expectedState
           targetPosition ==
             OrZero("position" \in DOMAIN es,
                    IF "position" \in DOMAIN es THEN es.position ELSE NaN)
       IN [name |-> "position_low_speed", parameters |-> <<targetPosition>>]
  ELSE [name |-> instructions.command,
        parameters |-> IF "parameters" \in DOMAIN instructions
                       THEN instructions.parameters ELSE <<>>]

(***************************************************************************)
(* Inputs of the adapter's specification.                                  *)
(***************************************************************************)
Inv == 1 .. NumInv

\* The payloads the messages of the adapter's specification carry: a polled
\* action and the action without expected state, each with and without
\* lowspeed, and an action the switch does not know.  (The resolver's
\* specification below draws every action and every text.)
Payload(action, text, lowspeed) ==
  [action |-> action, position |-> text, orientation |-> text,
   repetitions |-> text, lowspeed |-> lowspeed]

InputPayloads ==
  {Payload("customPosition", <<"4", "0">>, FALSE),
   Payload("customPosition", <<"4", "0">>, TRUE),
   Payload("stop", <<>>, FALSE),
   Payload("stop", <<>>, TRUE),
   Payload("bogus", <<>>, FALSE)}

\* The payloads of the resolver's specification: every action of the
\* switch and one that is not in it, with and without lowspeed, and the
\* numeric fields drawn from the texts of at most MaxTextLen characters
\* (digits and a character that is none) and texts with a sign and with
\* leading white space.
Chars == {"0", "4", "x"}
SpecialTexts == {<<"-", "4">>, <<" ", "4">>, <<"\f", "U+00A0", "4">>}
Texts ==
  UNION {[1 .. n -> Chars] : n \in 0 .. MaxTextLen} \cup SpecialTexts
RepetitionTexts == {<<"3">>, <<"x">>}

ResolverPayloads ==
  {[action |-> a, position |-> p, orientation |-> o, repetitions |-> r,
    lowspeed |-> l] :
     a \in Actions, p \in Texts, o \in Texts, r \in RepetitionTexts,
     l \in BOOLEAN}

\* The i-th message delivered to the node.
Message(i, payload) == [msgid |-> i, payload |-> payload]
NoMessage == [msgid |-> 0]

\* this['device']
Device == "device"

(***************************************************************************)
(* State.                                                                  *)
(***************************************************************************)
VARIABLES
  pc,          \* where each invocation of the handler is: see PcValues
  msg,         \* the message each invocation was called with
  execId,      \* the execution id each invocation got from execute
  tracker,     \* the future of continueWhenCompleted: none, pending, resolved
  timers,      \* per invocation, the delay timers armed and not yet fired
  inflight,    \* per invocation, the status probes awaiting their answer
  probeId,     \* the execution id of the invocation's latest status probe
  probeFailed, \* per invocation, whether a status probe was rejected
  nodeStatus,  \* the status the node displays
  log,         \* per invocation, its calls to status, execute and send
  watched,     \* the invocation whose polling loop is counted: any one
  delays,      \* of the watched invocation, the delays that have elapsed
  probes,      \* of the watched invocation, the status probes issued
  busy,        \* of the watched invocation, the probes answered with a status
  absences,    \* per invocation, the probes answered with null
  resolutions, \* per invocation, how often the tracking future was resolved
  gwPending,   \* gateway: the execution ids still pending
  process      \* whether the process that hosts the node runs

vars ==
  <<pc, msg, execId, tracker, timers, inflight, probeId, probeFailed,
    nodeStatus, log, watched, delays, probes, busy, absences, resolutions,
    gwPending, process>>

PcValues ==
  {"new",        \* the message has not arrived
   "ignored",    \* the handler returned on a null instruction
   "executing",  \* execute is in flight
   "execFailed", \* execute was rejected
   "unknown",    \* no expected state: grey status shown, message sent
   "tracking",   \* continueWhenCompleted was called, its future is awaited
   "resolved",   \* the tracking future is resolved, its reaction is queued
   "done"}       \* green status shown, message sent

\* The handler and the tracker leave two rejections without a handler: that
\* of execute (lines 100 to 117) and that of the timer's async callback
\* (lines 45 to 48).  What follows is the runtime's choice, whose outcomes
\* are: the process ends (Node.js from version 15 on, by default), or it
\* goes on (older versions, --unhandled-rejections=warn, or a host that
\* listens to 'unhandledRejection').  The choice is the runtime's and not
\* the rejection's: it shows at the first unhandled rejection and is the
\* same at every later one, so a process that went on after one rejection
\* goes on after the next.
UnhandledRejectionModes == {"throw", "warn"}
Running == process = "running"
processAfterUnhandledRejection(mode) ==
  IF mode = "throw" THEN "exited" ELSE "running"
\* An earlier unhandled rejection left the process running.
Warned == \E i \in Inv : pc[i] = "execFailed" \/ probeFailed[i]
UnhandledRejection ==
  \E mode \in IF Warned THEN {"warn"} ELSE UnhandledRejectionModes :
    process' = processAfterUnhandledRejection(mode)

\* The status of a node that has set none.
NoStatus == [fill |-> "none", shape |-> "none", text |-> <<>>]
NoExecId == 0

\* The observers count exactly below MaxProbes.
Inc(n) == IF n < MaxProbes THEN n + 1 ELSE n
\* One more for invocation i, if it is the watched one.
Count(i, n) == IF i = watched THEN Inc(n) ELSE n

\* An override that changes the instruction itself: it drops the expected
\* state once it has taken the position from it.
instructionsOfOverridden(i) ==
  LET instructions == generateInstructionsFromPayload(msg[i].payload)
  IN IF msg[i].payload.lowspeed /\ instructions # Null
          /\ instructions.command # "stop"
     THEN [f \in DOMAIN instructions \ {"expectedState"} |-> instructions[f]]
     ELSE instructions

\* const instructions, which the reactions of the handler close over.
instructionsOf(i) == generateInstructionsFromPayload(msg[i].payload)

StatusEvent(status) == [ev |-> "status", status |-> status]
ExecuteEvent(device, command) ==
  [ev |-> "execute", device |-> device, command |-> command]
SendEvent(m) == [ev |-> "send", msg |-> m]

progressStatus(instructions) ==
  [fill |-> "yellow", shape |-> "dot", text |-> instructions.labels.progress]
unknownStatus == [fill |-> "grey", shape |-> "dot", text |-> <<"Unknown">>]
doneStatus(instructions) ==
  [fill |-> "green", shape |-> "dot", text |-> instructions.labels.done]

\* The calls of the handler before it returns (lines 91 to 101).
inputCalls(instructions, command) ==
  <<StatusEvent(progressStatus(instructions)), ExecuteEvent(Device, command)>>

\* The branch without expected state, the send forgotten.
unknownCallsNoSend(m) == <<StatusEvent(unknownStatus)>>

\* The calls of the branch without expected state (lines 104 and 105).
unknownCalls(m) == <<StatusEvent(unknownStatus), SendEvent(m)>>

\* The message sent before the status is set.
doneCallsSendFirst(instructions, m) ==
  <<SendEvent(m), StatusEvent(doneStatus(instructions))>>

\* The calls of the reaction to the tracking future (lines 110 to 115).
doneCalls(instructions, m) ==
  <<StatusEvent(doneStatus(instructions)), SendEvent(m)>>

\* A display that only a node without a status takes a status on.
StatusAfterFirstWriter(status, calls) ==
  IF status # NoStatus \/ calls = <<>> THEN status
  ELSE IF Head(calls).ev = "status" THEN Head(calls).status ELSE status

\* The status displayed after a sequence of calls: the last one set.
RECURSIVE StatusAfter(_, _)
StatusAfter(status, calls) ==
  IF calls = <<>> THEN status
  ELSE StatusAfter(IF Head(calls).ev = "status" THEN Head(calls).status
                   ELSE status, Tail(calls))

\* A promise reaction is queued: it runs before any timer, message or
\* network callback.
ReactionQueued == \E j \in Inv : pc[j] = "resolved"

Init ==
  /\ pc = [i \in Inv |-> "new"]
  /\ msg = [i \in Inv |-> NoMessage]
  /\ execId = [i \in Inv |-> NoExecId]
  /\ tracker = [i \in Inv |-> "none"]
  /\ timers = [i \in Inv |-> 0]
  /\ inflight = [i \in Inv |-> 0]
  /\ probeId = [i \in Inv |-> NoExecId]
  /\ probeFailed = [i \in Inv |-> FALSE]
  /\ nodeStatus = NoStatus
  /\ log = [i \in Inv |-> <<>>]
  /\ watched \in Inv
  /\ delays = 0
  /\ probes = 0
  /\ busy = 0
  /\ absences = [i \in Inv |-> 0]
  /\ resolutions = [i \in Inv |-> 0]
  /\ gwPending = {}
  /\ process = "running"

(***************************************************************************)
(* The 'input' handler, up to the call of execute (lines 73 to 101).       *)
(* Messages are numbered in the order they arrive.                         *)
(***************************************************************************)
Input(i, payload) ==
  /\ Running
  /\ UNCHANGED process
  /\ pc[i] = "new"
  /\ \A j \in Inv : j < i => pc[j] # "new"
  /\ ~ReactionQueued
  /\ msg' = [msg EXCEPT ![i] = Message(i, payload)]
  /\ LET instructions == generateInstructionsFromPayload(payload)
     IN IF instructions = Null
        THEN /\ pc' = [pc EXCEPT ![i] = "ignored"]
             /\ UNCHANGED <<nodeStatus, log>>
        ELSE LET calls ==
                   inputCalls(instructions, buildCommand(payload, instructions))
             IN /\ nodeStatus' = StatusAfter(nodeStatus, calls)
                /\ log' = [log EXCEPT ![i] = @ \o calls]
                /\ pc' = [pc EXCEPT ![i] = "executing"]
  /\ UNCHANGED <<execId, tracker, timers, inflight, probeId, probeFailed,
                 watched, delays, probes, busy, absences, resolutions,
                 gwPending>>

(***************************************************************************)
(* The gateway client and the gateway (modelled from the spec, §6).        *)
(***************************************************************************)
\* What a status request answers.
NoExecution == "null"
InProgress == "IN_PROGRESS"

\* getStatusForExecutionId(id): the absence value when the execution is no
\* longer pending.
getStatusForExecutionId(id) ==
  IF id \in gwPending THEN InProgress ELSE NoExecution

\* The execution id the gateway hands out for the i-th execute call: an
\* opaque token, one per accepted command.
NewExecId(i) == i

\* The gateway finishes an execution (completed, or errored upstream).
GatewayFinish(id) ==
  /\ id \in gwPending
  /\ ~ReactionQueued
  /\ gwPending' = gwPending \ {id}
  /\ UNCHANGED process
  /\ UNCHANGED <<pc, msg, execId, tracker, timers, inflight, probeId,
                 probeFailed, nodeStatus, log, watched, delays, probes, busy,
                 absences, resolutions>>

(***************************************************************************)
(* The completion tracker (lines 39 to 61).                                *)
(***************************************************************************)
\* The delay between the call of validateStatus and its probe, in ms.
STATE_VALIDATOR_POLLING_DELAY == 2500

\* A comparison with undefined, which no status answer is.
isFinishedNever(status) == FALSE

\* A comparison the wrong way round.
isFinishedInverted(status) == status # NoExecution

\* validateStatus: resolve(status === null)
isFinished(status) == status = NoExecution

\* A tracker that does not wait for the next poll: the recursive call is
\* made but not returned, so the future resolves after the first probe.
continueWhenCompletedOnce(finished) == "resolve"

\* A tracker that polls again whatever the probe answered.
continueWhenCompletedAlways(finished) == "again"

\* The reaction of continueWhenCompleted to validateStatus's result: poll
\* again (a new validateStatus), or let the tracking future resolve.
continueWhenCompleted(finished) ==
  IF ~finished THEN "again" ELSE "resolve"

\* A validateStatus that issues the probe at once, without the timer.
validateStatusImmediate(i, inflightNow) ==
  /\ inflight' = [inflightNow EXCEPT ![i] = @ + 1]
  /\ probes' = Count(i, probes)
  /\ probeId' = [probeId EXCEPT ![i] = i]
  /\ UNCHANGED <<timers, delays>>

\* validateStatus is called: setTimeout arms the delay timer; the probe is
\* issued by the timer's callback, not here.
validateStatusCalled(i, inflightNow) ==
  /\ timers' = [timers EXCEPT ![i] = @ + 1]
  /\ inflight' = inflightNow
  /\ UNCHANGED <<probeId, delays, probes>>

\* A repeating timer (setInterval) in place of setTimeout.
timersKept(n) == n

\* setTimeout's timer is gone once it has fired.
timersAfterFiring(n) == n - 1

(***************************************************************************)
(* The reaction to execute's response (lines 102 to 117).                  *)
(***************************************************************************)
ExecuteResolved(i) ==
  /\ Running
  /\ UNCHANGED process
  /\ pc[i] = "executing"
  /\ ~ReactionQueued
  /\ gwPending' = gwPending \cup {NewExecId(i)}
  /\ LET instructions == instructionsOf(i)
         commandExecutionResponse == [execId |-> NewExecId(i)]
     IN IF ~HasExpectedState(instructions)
        THEN /\ nodeStatus' = StatusAfter(nodeStatus, unknownCalls(msg[i]))
             /\ log' = [log EXCEPT ![i] = @ \o unknownCalls(msg[i])]
             /\ pc' = [pc EXCEPT ![i] = "unknown"]
             /\ UNCHANGED <<execId, tracker, timers, inflight, probeId, delays,
                            probes>>
        ELSE /\ execId' =
                  [execId EXCEPT ![i] = commandExecutionResponse.execId]
             /\ tracker' = [tracker EXCEPT ![i] = "pending"]
             /\ pc' = [pc EXCEPT ![i] = "tracking"]
             /\ validateStatusCalled(i, inflight)
             /\ UNCHANGED <<nodeStatus, log>>
  /\ UNCHANGED <<msg, probeFailed, watched, busy, absences, resolutions>>

\* A handler with a reaction to the rejection, which rolls the status back.
ExecuteRejectedRollback(i) ==
  /\ Running
  /\ UnhandledRejection
  /\ pc[i] = "executing"
  /\ ~ReactionQueued
  /\ pc' = [pc EXCEPT ![i] = "execFailed"]
  /\ nodeStatus' = NoStatus
  /\ log' = [log EXCEPT ![i] = @ \o <<StatusEvent(NoStatus)>>]
  /\ UNCHANGED <<msg, execId, tracker, timers, inflight, probeId, probeFailed,
                 watched, delays, probes, busy, absences, resolutions,
                 gwPending>>

\* execute fails: the handler has no reaction to a rejection.
ExecuteRejected(i) ==
  /\ Running
  /\ UnhandledRejection
  /\ pc[i] = "executing"
  /\ ~ReactionQueued
  /\ pc' = [pc EXCEPT ![i] = "execFailed"]
  /\ UNCHANGED <<msg, execId, tracker, timers, inflight, probeId, probeFailed,
                 nodeStatus, log, watched, delays, probes, busy, absences,
                 resolutions, gwPending>>

\* An execution id kept in one variable of the module, which the latest
\* execute response has overwritten.
probeExecIdShared(i) ==
  CHOOSE id \in {execId[j] : j \in Inv} :
    \A other \in {execId[j] : j \in Inv} : other <= id

\* The execId the probe is issued with: the parameter of validateStatus,
\* which continueWhenCompleted passes on unchanged at every iteration.
probeExecId(i) == execId[i]

\* The delay has elapsed: the timer's callback issues the status probe
\* (lines 45 to 47).
TimerFires(i) ==
  /\ Running
  /\ UNCHANGED process
  /\ timers[i] > 0
  /\ ~ReactionQueued
  /\ timers' = [timers EXCEPT ![i] = timersAfterFiring(@)]
  /\ inflight' = [inflight EXCEPT ![i] = @ + 1]
  /\ delays' = Count(i, delays)
  /\ probes' = Count(i, probes)
  /\ probeId' = [probeId EXCEPT ![i] = probeExecId(i)]
  /\ UNCHANGED <<pc, msg, execId, tracker, probeFailed, nodeStatus, log,
                 watched, busy, absences, resolutions, gwPending>>

\* The status probe answers: validateStatus's promise resolves (line 48)
\* and the reaction of continueWhenCompleted runs (lines 56 to 60).
ProbeResolved(i) ==
  /\ Running
  /\ UNCHANGED process
  /\ inflight[i] > 0
  /\ ~ReactionQueued
  /\ LET status == getStatusForExecutionId(probeId[i])
         answered == [inflight EXCEPT ![i] = @ - 1]
     IN /\ busy' = IF status = NoExecution THEN busy ELSE Count(i, busy)
        /\ absences' = [absences EXCEPT ![i] = IF status = NoExecution
                                                THEN Inc(@) ELSE @]
        /\ IF continueWhenCompleted(isFinished(status)) = "again"
           THEN /\ validateStatusCalled(i, answered)
                /\ UNCHANGED <<pc, tracker, resolutions>>
           ELSE /\ inflight' = answered
                /\ pc' = [pc EXCEPT ![i] = "resolved"]
                /\ tracker' = [tracker EXCEPT ![i] = "resolved"]
                /\ resolutions' = [resolutions EXCEPT ![i] = Inc(@)]
                /\ UNCHANGED <<timers, probeId, delays, probes>>
  /\ UNCHANGED <<msg, execId, probeFailed, nodeStatus, log, watched,
                 gwPending>>

\* A tracker that takes a failed probe for an execution still pending and
\* polls again.
ProbeRejectedRetry(i) ==
  /\ Running
  /\ UnhandledRejection
  /\ inflight[i] > 0
  /\ ~ReactionQueued
  /\ probeFailed' = [probeFailed EXCEPT ![i] = TRUE]
  /\ validateStatusCalled(i, [inflight EXCEPT ![i] = @ - 1])
  /\ UNCHANGED <<pc, msg, execId, tracker, nodeStatus, log, watched, busy,
                 absences, resolutions, gwPending>>

\* The status probe fails: the timer's async callback throws before it
\* calls resolve, so validateStatus's promise is never settled and no
\* reaction of continueWhenCompleted runs.
ProbeRejected(i) ==
  /\ Running
  /\ UnhandledRejection
  /\ inflight[i] > 0
  /\ ~ReactionQueued
  /\ inflight' = [inflight EXCEPT ![i] = @ - 1]
  /\ probeFailed' = [probeFailed EXCEPT ![i] = TRUE]
  /\ UNCHANGED <<pc, msg, execId, tracker, timers, probeId, nodeStatus, log,
                 watched, delays, probes, busy, absences, resolutions,
                 gwPending>>

\* The reaction to the tracking future (lines 109 to 116).
DoneCallback(i) ==
  /\ Running
  /\ UNCHANGED process
  /\ pc[i] = "resolved"
  /\ LET calls == doneCalls(instructionsOf(i), msg[i])
     IN /\ nodeStatus' = StatusAfter(nodeStatus, calls)
        /\ log' = [log EXCEPT ![i] = @ \o calls]
  /\ pc' = [pc EXCEPT ![i] = "done"]
  /\ UNCHANGED <<msg, execId, tracker, timers, inflight, probeId, probeFailed,
                 watched, delays, probes, busy, absences, resolutions,
                 gwPending>>

\* The steps of the node and the gateway, with the first n messages only,
\* which carry the given payloads.
NextWith(n, payloads) ==
  \/ \E i \in 1 .. n : \E payload \in payloads : Input(i, payload)
  \/ \E i \in Inv : ExecuteResolved(i)
  \/ \E i \in Inv : ExecuteRejected(i)
  \/ \E i \in Inv : TimerFires(i)
  \/ \E i \in Inv : ProbeResolved(i)
  \/ \E i \in Inv : ProbeRejected(i)
  \/ \E i \in Inv : DoneCallback(i)
  \/ \E id \in gwPending : GatewayFinish(id)

NextUpTo(n) == NextWith(n, InputPayloads)

Next == NextUpTo(NumInv)

Spec == Init /\ [][Next]_vars

\* While the process runs, timers fire, network calls answer (one way or
\* the other) and queued reactions run; messages need not arrive and the
\* gateway need not finish.  Once the process has ended none of these steps
\* is enabled, and fairness asks for none.
Fairness ==
  \A i \in Inv :
    /\ WF_vars(ExecuteResolved(i) \/ ExecuteRejected(i))
    /\ WF_vars(TimerFires(i))
    /\ WF_vars(ProbeResolved(i) \/ ProbeRejected(i))
    /\ WF_vars(DoneCallback(i))

LiveNext == NextUpTo(LiveInv)

FairSpec == Init /\ [][LiveNext]_vars /\ Fairness

\* Overlapping invocations under fairness: the first OverlapInv messages,
\* each a polled action or a stop.
OverlapPayloads == {p \in InputPayloads : p.action # "bogus" /\ ~p.lowspeed}
OverlapInit == Init /\ watched = 1
OverlapNext == NextWith(OverlapInv, OverlapPayloads)
OverlapSpec == OverlapInit /\ [][OverlapNext]_vars /\ Fairness

\* The resolver and the handler's command on their own: one message, with
\* any payload of ResolverPayloads, is delivered to a fresh node.
ResolverInit == Init /\ watched = 1
ResolverNext ==
  /\ pc[1] = "new"
  /\ \E payload \in ResolverPayloads : Input(1, payload)
ResolverSpec == ResolverInit /\ [][ResolverNext]_vars

(***************************************************************************)
(* What the log and the payload say about an invocation.                   *)
(***************************************************************************)
Arrived(i) == msg[i] # NoMessage
Recognized(i) == Arrived(i) /\ msg[i].payload.action \in KnownActions
IsStop(i) == Arrived(i) /\ msg[i].payload.action = "stop"
\* The recognized actions other than stop: those with an expected state.
Polled(i) == Recognized(i) /\ ~IsStop(i)

\* The places of the log where a status of the given fill was set, and
\* where the message was sent.
StatusIdx(i, fill) ==
  {k \in DOMAIN log[i] :
     log[i][k].ev = "status" /\ log[i][k].status.fill = fill}
SendIdx(i) == {k \in DOMAIN log[i] : log[i][k].ev = "send"}
ExecuteIdx(i) == {k \in DOMAIN log[i] : log[i][k].ev = "execute"}
TerminalIdx(i) == StatusIdx(i, "green") \cup StatusIdx(i, "grey")

\* execute was accepted for the invocation.
Accepted(i) == pc[i] \in {"unknown", "tracking", "resolved", "done"}

(***************************************************************************)
(* C1: the green "done" status, with the instruction's done label, is      *)
(* displayed for an invocation only after a status probe for its execution *)
(* id was answered with null: never for an invocation that has not been    *)
(* probed or whose probes were all answered with a status.                 *)
(***************************************************************************)
C1_DoneOnlyAfterAbsence ==
  /\ \A i \in Inv :
       StatusIdx(i, "green") # {} =>
         /\ Polled(i)
         /\ absences[i] >= 1
         /\ i = watched => probes >= 1
         /\ probeId[i] = NewExecId(i)
         /\ \A k \in StatusIdx(i, "green") :
              log[i][k].status.text = instructionsOf(i).labels.done
  /\ nodeStatus.fill = "green" =>
       \E i \in Inv :
         /\ absences[i] >= 1
         /\ nodeStatus.text = instructionsOf(i).labels.done

\* Done is displayed after two probes answered with a status and one
\* answered with null.
C1_Witness ==
  \E i \in Inv :
    /\ pc[i] = "done" /\ absences[i] = 1
    /\ i = watched /\ busy = 2
    /\ nodeStatus = [fill |-> "green", shape |-> "dot",
                     text |-> <<"Set to ", "4", "0">>]

(***************************************************************************)
(* C2: polling is gated on expectedState.  For action 'stop' (with or      *)
(* without lowspeed) no timer is armed and no probe issued, and once       *)
(* execute is accepted the grey "Unknown" status is the terminal one; for  *)
(* every other recognized action whose execute is accepted the tracker is  *)
(* started and "Unknown" is never displayed.                               *)
(***************************************************************************)
C2_PollingGatedOnExpectedState ==
  \A i \in Inv :
    /\ IsStop(i) =>
         /\ timers[i] = 0 /\ inflight[i] = 0
         /\ probeId[i] = NoExecId
         /\ i = watched => probes = 0 /\ delays = 0
         /\ tracker[i] = "none"
         /\ StatusIdx(i, "green") = {}
         /\ Accepted(i) =>
              /\ pc[i] = "unknown"
              /\ log[i][Len(log[i]) - 1] = StatusEvent(unknownStatus)
         /\ ~Accepted(i) => StatusIdx(i, "grey") = {}
    /\ Polled(i) =>
         /\ StatusIdx(i, "grey") = {}
         /\ pc[i] # "unknown"
         /\ Accepted(i) =>
              /\ tracker[i] # "none"
              /\ execId[i] = NewExecId(i)
              /\ probeFailed[i] \/ tracker[i] = "resolved"
                   \/ timers[i] + inflight[i] = 1

\* A stop is answered "Unknown" while the gateway still runs it, and a
\* polled invocation has been probed.
C2_Witness ==
  \E i, j \in Inv :
    /\ IsStop(i) /\ pc[i] = "unknown" /\ NewExecId(i) \in gwPending
    /\ msg[i].payload.lowspeed
    /\ Polled(j) /\ probeId[j] = NewExecId(j) /\ pc[j] = "done"

(***************************************************************************)
(* C3: an invocation with an expectedState has at most one outstanding     *)
(* item among its delay timer and its status probe in flight, exactly one  *)
(* while its tracker is polling, and a delay timer is armed only when the  *)
(* tracker starts or after the previous probe was answered with a status.  *)
(***************************************************************************)
C3_OneOutstanding ==
  \A i \in Inv :
    /\ timers[i] + inflight[i] <= 1
    /\ tracker[i] # "pending" => timers[i] + inflight[i] = 0
    /\ tracker[i] = "pending" /\ ~probeFailed[i] =>
         timers[i] + inflight[i] = 1

C3_TimerArmedOnlyAfterBusyProbe ==
  \A i \in Inv :
    /\ timers'[i] > timers[i] =>
         \/ /\ tracker[i] = "none" /\ tracker'[i] = "pending"
            /\ pc[i] = "executing" /\ Polled(i)
         \/ /\ inflight[i] = 1 /\ inflight'[i] = 0
            /\ probeId[i] \in gwPending
            /\ tracker[i] = "pending"
    /\ tracker'[i] = "pending" /\ tracker[i] # "pending" =>
         tracker[i] = "none"

C3_NoOverlappingPolls ==
  [](C3_OneOutstanding) /\ [][C3_TimerArmedOnlyAfterBusyProbe]_vars

\* The third delay timer of an invocation is armed while another
\* invocation has its probe in flight.
C3_Witness ==
  \E i, j \in Inv :
    /\ i # j
    /\ timers[i] = 1 /\ i = watched /\ busy = 2
    /\ inflight[j] = 1

(***************************************************************************)
(* C4: within an invocation the yellow "progress" status comes first, the  *)
(* terminal status (green "done" or grey "Unknown") comes after it, and    *)
(* the message is sent only after the terminal status.                     *)
(***************************************************************************)
C4_ProgressTerminalSend ==
  \A i \in Inv :
    /\ log[i] # <<>> =>
         log[i][1] = StatusEvent([fill |-> "yellow", shape |-> "dot",
                                  text |-> instructionsOf(i).labels.progress])
    /\ \A t \in TerminalIdx(i) : \E y \in StatusIdx(i, "yellow") : y < t
    /\ \A n \in SendIdx(i) :
         /\ \E t \in TerminalIdx(i) : t < n
         /\ \E y \in StatusIdx(i, "yellow") : y < n
    /\ pc[i] \in {"unknown", "done"} =>
         TerminalIdx(i) # {} /\ SendIdx(i) # {}

\* One invocation went through progress, done, send, and another through
\* progress, Unknown, send.
C4_Witness ==
  \E i, j \in Inv :
    /\ pc[i] = "done" /\ Len(log[i]) = 4 /\ log[i][4].ev = "send"
    /\ pc[j] = "unknown" /\ Len(log[j]) = 4 /\ log[j][4].ev = "send"

(***************************************************************************)
(* C5: the message is forwarded exactly once per invocation with a         *)
(* recognized action, whatever the gateway does.                           *)
(*                                                                         *)
(* As stated (C5_ForwardedOnceWhateverHappens: an invocation for which     *)
(* nothing more can happen has forwarded its message once) it fails: after *)
(* a failed execute or a failed probe nothing is forwarded.  What holds    *)
(* (C5_ForwardedAtMostOnce): the message is forwarded at most once,        *)
(* exactly once when the invocation reached its terminal status (execute   *)
(* accepted and, with an expectedState, the tracker resolved), right after *)
(* that status, and it is the invocation's own message; nothing is         *)
(* forwarded after a failed execute or a failed probe.                     *)
(***************************************************************************)
\* Nothing more can happen for the invocation: no call in flight, no timer
\* armed, no reaction queued.
Quiescent(i) ==
  \/ pc[i] \in {"ignored", "execFailed", "unknown", "done"}
  \/ pc[i] = "tracking" /\ timers[i] = 0 /\ inflight[i] = 0

C5_ForwardedOnceWhateverHappens ==
  \A i \in Inv :
    Recognized(i) /\ Quiescent(i) => Cardinality(SendIdx(i)) = 1

C5_ForwardedAtMostOnce ==
  \A i \in Inv :
    /\ Cardinality(SendIdx(i)) <= 1
    /\ Recognized(i) => (Cardinality(SendIdx(i)) = 1 <=>
                           pc[i] \in {"unknown", "done"})
    /\ \A n \in SendIdx(i) :
         /\ log[i][n].msg = msg[i]
         /\ n = Len(log[i])
         /\ n - 1 \in TerminalIdx(i)
    /\ pc[i] = "execFailed" \/ probeFailed[i] => SendIdx(i) = {}

\* One invocation has forwarded its message after polling, and another,
\* whose execute failed, has not.
C5_Witness ==
  \E i, j \in Inv :
    /\ pc[i] = "done" /\ i = watched /\ busy >= 1
    /\ Cardinality(SendIdx(i)) = 1
    /\ pc[j] = "execFailed" /\ Recognized(j) /\ SendIdx(j) = {}

(***************************************************************************)
(* C6: if the probe is answered with a status k times and then with null,  *)
(* the tracker resolves after exactly k+1 probes and not before; every     *)
(* probe, the first one too, is issued by a delay timer of its own, so     *)
(* k+1 delays have elapsed at resolution.                                  *)
(***************************************************************************)
Elapsed == delays * STATE_VALIDATOR_POLLING_DELAY

C6_ResolvesAfterKPlusOneProbes ==
  LET i == watched
  IN /\ delays = probes
     /\ inflight[i] > 0 => delays >= 1
     /\ tracker[i] = "none" => probes = 0
     /\ tracker[i] = "resolved" /\ probes < MaxProbes =>
          /\ absences[i] = 1
          /\ probes = busy + 1
          /\ Elapsed = (busy + 1) * 2500
     /\ tracker[i] = "pending" /\ probes < MaxProbes =>
          /\ absences[i] = 0
          /\ probes = busy + inflight[i] + (IF probeFailed[i] THEN 1 ELSE 0)

\* Two probes answered with a status, then one with null: resolved after
\* the third probe and three delays.
C6_Witness ==
  /\ tracker[watched] = "resolved"
  /\ busy = 2 /\ probes = 3 /\ delays = 3 /\ probes < MaxProbes

(***************************************************************************)
(* C7: the tracking future resolves exactly once, at the first probe that  *)
(* is answered with null; once it is resolved no delay timer is armed and  *)
(* no probe is issued for the invocation.                                  *)
(***************************************************************************)
C7_ResolvedAtFirstAbsence ==
  \A i \in Inv :
    /\ resolutions[i] <= 1
    /\ tracker[i] = "resolved" <=> resolutions[i] = 1
    /\ absences[i] >= 1 <=> tracker[i] = "resolved"
    /\ absences[i] <= 1
    /\ tracker[i] = "resolved" => timers[i] = 0 /\ inflight[i] = 0

C7_FinishedOnceResolved ==
  \A i \in Inv :
    tracker[i] = "resolved" =>
      /\ tracker'[i] = "resolved"
      /\ timers'[i] = 0 /\ inflight'[i] = 0
      /\ i = watched => probes' = probes /\ delays' = delays
      /\ probeId'[i] = probeId[i]
      /\ resolutions'[i] = resolutions[i]

C7_ResolvesExactlyOnce ==
  [](C7_ResolvedAtFirstAbsence) /\ [][C7_FinishedOnceResolved]_vars

\* A resolved tracker, after probes answered with a status, while another
\* invocation is still polling.
C7_Witness ==
  \E i, j \in Inv :
    /\ tracker[i] = "resolved" /\ pc[i] = "done"
    /\ i = watched /\ busy >= 1
    /\ tracker[j] = "pending" /\ inflight[j] = 1

(***************************************************************************)
(* C8: with timers and callbacks scheduled fairly (the process runs and    *)
(* goes on scheduling them), if execute and every status probe of an       *)
(* invocation succeed and the gateway eventually has its execution no      *)
(* longer pending, the invocation eventually displays "done" and forwards  *)
(* its message.                                                            *)
(***************************************************************************)
C8_EventuallyDone ==
  \A i \in Inv :
    ( /\ [](Running)
      /\ [](pc[i] # "execFailed" /\ ~probeFailed[i])
      /\ <>[](NewExecId(i) \notin gwPending) )
    => [](Polled(i) =>
            <>(/\ pc[i] = "done"
               /\ StatusIdx(i, "green") # {}
               /\ SendIdx(i) # {}))

\* Done after the gateway kept the execution pending over two probes.
C8_Witness ==
  \E i \in Inv :
    /\ Polled(i) /\ pc[i] = "done" /\ i = watched /\ busy >= 2
    /\ NewExecId(i) \notin gwPending
    /\ SendIdx(i) # {}

(***************************************************************************)
(* C9: if the gateway keeps an execution pending for ever and every probe  *)
(* succeeds, the tracker (in a process that goes on running) polls again   *)
(* and again without a limit: the probe                                    *)
(* count passes every bound, a probe is in flight again and again, the     *)
(* tracking future never resolves, the invocation never sets another       *)
(* status than its progress status and never forwards its message.         *)
(***************************************************************************)
C9_StuckPollsForever ==
  \A i \in Inv :
    ( /\ [](Running)
      /\ [](~probeFailed[i])
      /\ [](tracker[i] = "pending" => NewExecId(i) \in gwPending) )
    => /\ [](i = watched /\ tracker[i] = "pending" => <>(probes = MaxProbes))
       /\ [](tracker[i] = "pending" => <>(inflight[i] = 1))
       /\ [](tracker[i] = "pending" => <>(timers[i] = 1))
       /\ [](Polled(i) =>
               /\ tracker[i] # "resolved"
               /\ pc[i] \notin {"resolved", "done"}
               /\ TerminalIdx(i) = {}
               /\ SendIdx(i) = {})

\* The probe count has reached the observers' bound with every probe
\* answered with a status, and the next timer is armed.
C9_Witness ==
  \E i \in Inv :
    /\ tracker[i] = "pending" /\ NewExecId(i) \in gwPending
    /\ i = watched /\ probes = MaxProbes /\ busy = MaxProbes
    /\ timers[i] = 1
    /\ SendIdx(i) = {}

(***************************************************************************)
(* C10: for a payload whose action the switch does not know, the resolver  *)
(* returns null and the handler does nothing: no status is set, execute    *)
(* is not called, no probe is issued, nothing is forwarded, and the        *)
(* displayed status stays what it was.                                     *)
(***************************************************************************)
C10_IgnoredDoesNothing ==
  \A i \in Inv :
    /\ Arrived(i) /\ msg[i].payload.action \notin KnownActions =>
         /\ generateInstructionsFromPayload(msg[i].payload) = Null
         /\ pc[i] = "ignored"
         /\ log[i] = <<>>
         /\ execId[i] = NoExecId /\ NewExecId(i) \notin gwPending
         /\ tracker[i] = "none"
         /\ timers[i] = 0 /\ inflight[i] = 0
         /\ probeId[i] = NoExecId
         /\ i = watched => probes = 0 /\ delays = 0
    /\ pc[i] = "ignored" => msg[i].payload.action \notin KnownActions

C10_IgnoredChangesNothing ==
  \A i \in Inv :
    /\ ( /\ pc[i] = "new" /\ pc'[i] # "new"
         /\ msg'[i].payload.action \notin KnownActions ) =>
         /\ pc'[i] = "ignored"
         /\ UNCHANGED <<nodeStatus, log, execId, tracker, timers, inflight,
                        probeId, probeFailed, watched, delays, probes, busy,
                        absences, resolutions, gwPending>>
    /\ pc[i] = "ignored" => pc'[i] = "ignored"

C10_UnrecognizedIsNoOp ==
  [](C10_IgnoredDoesNothing) /\ [][C10_IgnoredChangesNothing]_vars

\* An unknown action arrived after an invocation that is done: the green
\* status is still displayed.
C10_Witness ==
  \E i, j \in Inv :
    /\ pc[i] = "ignored" /\ msg[i].payload.action = "bogus"
    /\ pc[j] = "done" /\ j < i
    /\ nodeStatus = [fill |-> "green", shape |-> "dot",
                     text |-> <<"Set to ", "4", "0">>]

(***************************************************************************)
(* C11: a failed status probe propagates out of the tracker: the tracking  *)
(* future of continueWhenCompleted is settled with the failure (rejected)  *)
(* and does not stay pending, so that the tracker's caller can observe it. *)
(*                                                                         *)
(* As stated (C11_ProbeFailureSettlesFuture) it fails on the code: the     *)
(* probe is awaited inside the timer's async callback, whose own promise   *)
(* takes the failure; resolve is never called and validateStatus's promise *)
(* has no reject path, so the tracking future stays pending for ever with  *)
(* nothing outstanding.                                                    *)
(***************************************************************************)
C11_ProbeFailureSettlesFuture ==
  \A i \in Inv :
    probeFailed[i] /\ timers[i] = 0 /\ inflight[i] = 0 =>
      tracker[i] # "pending"

\* A probe has failed after one that was answered with a status: nothing is
\* outstanding and the tracking future is still pending.
C11_Witness ==
  \E i \in Inv :
    /\ probeFailed[i] /\ i = watched /\ busy = 1
    /\ timers[i] = 0 /\ inflight[i] = 0
    /\ tracker[i] = "pending" /\ pc[i] = "tracking"

(***************************************************************************)
(* C12: with lowspeed true and a recognized action other than 'stop', the  *)
(* command passed to execute is 'position_low_speed', a name the resolver  *)
(* never gives, with parameters [p], p being the position of the           *)
(* instruction's expectedState, also when that position is 0 or            *)
(* not-a-number, and 0 only when the expectedState carries no position;    *)
(* for 'stop', or lowspeed false, the command is the resolver's, with the  *)
(* resolver's parameters.                                                  *)
(*                                                                         *)
(* As stated (C12_LowSpeedSendsResolvedPosition) it fails on the code:     *)
(* line 86 takes the position with `|| 0`, which turns a not-a-number      *)
(* position into 0 as well, so a malformed position sends the device to    *)
(* position 0 at low speed.                                                *)
(***************************************************************************)
\* The command of the invocation's execute call.
ExecutedCommand(i) == log[i][2].command

C12_LowSpeedSendsResolvedPosition ==
  \A i \in Inv :
    Recognized(i) =>
      LET payload == msg[i].payload
          instructions == generateInstructionsFromPayload(payload)
          command == ExecutedCommand(i)
      IN /\ Cardinality(ExecuteIdx(i)) = 1 /\ log[i][2].ev = "execute"
         /\ IF payload.lowspeed /\ payload.action # "stop"
            THEN /\ command.name = "position_low_speed"
                 /\ command.name # instructions.command
                 /\ command.parameters =
                      <<IF "position" \in DOMAIN instructions.expectedState
                        THEN instructions.expectedState.position
                        ELSE Num(0)>>
            ELSE /\ command.name = instructions.command
                 /\ command.parameters =
                      IF "parameters" \in DOMAIN instructions
                      THEN instructions.parameters ELSE <<>>

\* A low-speed customPosition whose position has no digit: the instruction
\* carries not-a-number, and the command sent carries 0.
C12_Witness ==
  \E i \in Inv :
    /\ Arrived(i) /\ msg[i].payload.action = "customPosition"
    /\ msg[i].payload.lowspeed /\ msg[i].payload.position = <<"x">>
    /\ instructionsOf(i).expectedState.position = NaN
    /\ ExecutedCommand(i) =
         [name |-> "position_low_speed", parameters |-> <<Num(0)>>]

(***************************************************************************)
(* C13: the low-speed override changes only the command passed to execute. *)
(* What an invocation displays and forwards, whether it polls and how many *)
(* probes it issues are those of the same payload without lowspeed, given  *)
(* the same answers of the gateway: the instruction, the statuses, the     *)
(* start of the tracker and the probe count do not depend on lowspeed, and *)
(* two invocations whose payloads differ in lowspeed only and that are at  *)
(* the same point have displayed and forwarded the same.                   *)
(***************************************************************************)
WithoutLowSpeed(payload) == [payload EXCEPT !.lowspeed = FALSE]

NotExecute(e) == e.ev # "execute"
\* The statuses set and the sends made by the invocation, in order.
Visible(i) ==
  LET shown == SelectSeq(log[i], NotExecute)
  IN [k \in DOMAIN shown |->
        IF shown[k].ev = "status" THEN shown[k] ELSE [ev |-> "send"]]

\* What an invocation at point p shows for the instruction of the payload
\* without lowspeed.
VisibleAt(plain, p) ==
  CASE p \in {"executing", "execFailed", "tracking", "resolved"} ->
         <<StatusEvent(progressStatus(plain))>>
    [] p = "unknown" ->
         <<StatusEvent(progressStatus(plain)), StatusEvent(unknownStatus),
           [ev |-> "send"]>>
    [] p = "done" ->
         <<StatusEvent(progressStatus(plain)), StatusEvent(doneStatus(plain)),
           [ev |-> "send"]>>

C13_LowSpeedChangesOnlyTheCommand ==
  /\ \A i \in Inv :
       Recognized(i) =>
         LET payload == msg[i].payload
             plain == generateInstructionsFromPayload(WithoutLowSpeed(payload))
         IN /\ Visible(i) = VisibleAt(plain, pc[i])
            /\ ExecutedCommand(i) = buildCommand(payload, plain)
            /\ tracker[i] # "none" <=> Accepted(i) /\ HasExpectedState(plain)
            /\ pc[i] = "unknown" => ~HasExpectedState(plain)
            /\ ~HasExpectedState(plain) => timers[i] = 0 /\ inflight[i] = 0
            /\ i = watched /\ tracker[i] = "resolved" /\ probes < MaxProbes =>
                 probes = busy + 1
  /\ \A i, j \in Inv :
       ( /\ Recognized(i) /\ Recognized(j)
         /\ WithoutLowSpeed(msg[i].payload) = WithoutLowSpeed(msg[j].payload)
         /\ pc[i] = pc[j] ) =>
         /\ Visible(i) = Visible(j)
         /\ tracker[i] = tracker[j]
         /\ absences[i] = absences[j]

\* Two invocations with the same payload but for lowspeed are both done,
\* one after a probe answered with a status: they showed the same and were
\* sent with different commands.
C13_Witness ==
  \E i, j \in Inv :
    /\ pc[i] = "done" /\ pc[j] = "done"
    /\ msg[i].payload.lowspeed /\ ~msg[j].payload.lowspeed
    /\ WithoutLowSpeed(msg[i].payload) = msg[j].payload
    /\ i = watched /\ busy = 1
    /\ Visible(i) = Visible(j)
    /\ ExecutedCommand(i).name = "position_low_speed"
    /\ ExecutedCommand(j).name = SET_CLOSURE

(***************************************************************************)
(* C14: the polling chains of different invocations are independent and    *)
(* do not block each other.  No step changes the state of two invocations; *)
(* whatever the other invocations do (stuck, failed), an invocation's      *)
(* armed timer can fire, its probe can be answered and its reactions can   *)
(* run as soon as no promise reaction is queued; under fairness, once the  *)
(* gateway has its execution no longer pending, it is probed, displays its *)
(* terminal status and forwards its message unless its own probe fails.    *)
(*                                                                         *)
(* As stated (C14_ChainsIndependent) it fails on the code: the rejection   *)
(* of a failed execute or of a failed probe has no handler, and where the  *)
(* runtime ends the process on an unhandled rejection the failure of one   *)
(* invocation stops the timers and probes of every other one.              *)
(***************************************************************************)
\* The state of one invocation and of its chain.
Local(i) ==
  <<pc[i], msg[i], execId[i], tracker[i], timers[i], inflight[i], probeId[i],
    probeFailed[i], log[i], absences[i], resolutions[i]>>

C14_NoSharedState ==
  \A i, j \in Inv :
    i # j => Local(i)' = Local(i) \/ Local(j)' = Local(j)

C14_NotBlocked ==
  LET queued == \E k \in Inv : pc[k] = "resolved"
  IN \A j \in Inv :
       /\ timers[j] > 0 /\ ~queued => ENABLED TimerFires(j)
       /\ inflight[j] > 0 /\ ~queued =>
            ENABLED ProbeResolved(j) /\ ENABLED ProbeRejected(j)
       /\ pc[j] = "executing" /\ ~queued => ENABLED ExecuteResolved(j)
       /\ pc[j] = "resolved" => ENABLED DoneCallback(j)

C14_ChainsIndependent ==
  /\ [][C14_NoSharedState]_vars
  /\ [](C14_NotBlocked)
  /\ \A j \in Inv :
       ( /\ tracker[j] = "pending" /\ ~probeFailed[j]
         /\ NewExecId(j) \notin gwPending )
         ~> ( \/ pc[j] = "done" /\ SendIdx(j) # {}
              \/ probeFailed[j] )

\* The execute of the earlier invocation failed and the process ended; the
\* later one is left with its timer armed for an execution that the gateway
\* has finished, and neither displays "done" nor forwards its message.
C14_Witness ==
  \E i, j \in Inv :
    /\ i < j
    /\ pc[i] = "execFailed" /\ ~Running
    /\ pc[j] = "tracking" /\ ~probeFailed[j] /\ timers[j] = 1
    /\ NewExecId(j) \notin gwPending
    /\ ~ENABLED TimerFires(j)
    /\ SendIdx(j) = {}

(***************************************************************************)
(* C15: generateInstructionsFromPayload is the mapping table, for every    *)
(* action and every numeric field (p, o, r the numbers read from position, *)
(* orientation, repetitions):                                              *)
(*   open -> OPEN {open: true, position: 0}, no parameters;                *)
(*   close -> CLOSE {open: false, position: 100}, no parameters;           *)
(*   customPosition -> SET_CLOSURE {open: true, position: p} [p];          *)
(*   customRotation, customOrientation -> ROTATION {orientation: o} [o];   *)
(*   customClosureAndOrientation -> SET_CLOSURE_AND_ORIENTATION            *)
(*     {position: p, orientation: o} [p, o];                               *)
(*   wink -> WINK {repetitions: r} [r];                                    *)
(*   stop -> STOP, no expectedState;  anything else -> null;               *)
(* and among the instructions expectedState is absent exactly for 'stop'.  *)
(* The handler's progress status and execute call are those of the table.  *)
(***************************************************************************)
\* The instruction the handler worked with, read back from its calls.
Resolved(i) == generateInstructionsFromPayload(msg[i].payload)

TableRow(ins, command, expectedState, parameters) ==
  /\ ins # Null
  /\ ins.command = command
  /\ "expectedState" \in DOMAIN ins /\ ins.expectedState = expectedState
  /\ IF parameters = <<>> THEN "parameters" \notin DOMAIN ins
     ELSE "parameters" \in DOMAIN ins /\ ins.parameters = parameters

C15_ResolverIsTheTable ==
  \A i \in Inv :
    Arrived(i) =>
      LET payload == msg[i].payload
          action == payload.action
          ins == Resolved(i)
          p == parseInt(payload.position)
          o == parseInt(payload.orientation)
          r == parseInt(payload.repetitions)
      IN /\ action = "open" =>
              TableRow(ins, "open", [open |-> TRUE, position |-> Num(0)], <<>>)
         /\ action = "close" =>
              TableRow(ins, "close",
                       [open |-> FALSE, position |-> Num(100)], <<>>)
         /\ action = "customPosition" =>
              /\ TableRow(ins, "setClosure",
                          [open |-> TRUE, position |-> p], <<p>>)
              /\ ins.labels.progress = <<"Setting to ">> \o payload.position
              /\ ins.labels.done = <<"Set to ">> \o payload.position
         /\ action \in {"customRotation", "customOrientation"} =>
              TableRow(ins, "rotation", [orientation |-> o], <<o>>)
         /\ action = "customClosureAndOrientation" =>
              TableRow(ins, "setClosureAndOrientation",
                       [position |-> p, orientation |-> o], <<p, o>>)
         /\ action = "wink" =>
              TableRow(ins, "wink", [repetitions |-> r], <<r>>)
         /\ action = "stop" =>
              /\ ins # Null /\ ins.command = "stop"
              /\ DOMAIN ins = {"command", "labels"}
         /\ action \notin KnownActions <=> ins = Null
         /\ ins # Null =>
              /\ "expectedState" \notin DOMAIN ins <=> action = "stop"
              /\ log[i][1] = StatusEvent(progressStatus(ins))
              /\ ~payload.lowspeed =>
                   /\ ExecutedCommand(i).name = ins.command
                   /\ action = "customClosureAndOrientation" =>
                        ExecutedCommand(i).parameters = <<p, o>>
         \* the numbers read from the texts
         /\ payload.position = <<"4", "0">> => p = Num(40)
         /\ payload.position = <<"0", "4">> => p = Num(4)
         /\ payload.position = <<"4", "x">> => p = Num(4)
         /\ payload.position = <<"-", "4">> => p = Num(0 - 4)
         /\ payload.position = <<" ", "4">> => p = Num(4)
         /\ payload.position = <<"\f", "U+00A0", "4">> => p = Num(4)
         /\ payload.position \in {<<>>, <<"x">>, <<"x", "4">>} => p = NaN
         /\ payload.repetitions = <<"3">> => r = Num(3)

\* customClosureAndOrientation with position '40' and orientation '4' gave
\* setClosureAndOrientation [40, 4], which the handler sent.
C15_Witness ==
  \E i \in Inv :
    /\ Arrived(i) /\ msg[i].payload.action = "customClosureAndOrientation"
    /\ msg[i].payload.position = <<"4", "0">>
    /\ msg[i].payload.orientation = <<"4">>
    /\ ~msg[i].payload.lowspeed
    /\ ExecutedCommand(i) =
         [name |-> "setClosureAndOrientation",
          parameters |-> <<Num(40), Num(4)>>]
    /\ Resolved(i).expectedState =
         [position |-> Num(40), orientation |-> Num(4)]

(***************************************************************************)
(* C16: when execute fails the handler does nothing more for the           *)
(* invocation: execute is not called again, no tracker is started, no      *)
(* timer armed and no probe issued, no terminal status is set, the message *)
(* is not forwarded, and the status is not rolled back: the failure leaves *)
(* the displayed status as it is, the invocation's last status is its      *)
(* progress status, and the node displays it as long as no other           *)
(* invocation sets a status.                                               *)
(***************************************************************************)
C16_NothingAfterExecuteFailure ==
  \A i \in Inv :
    pc[i] = "execFailed" =>
      LET payload == msg[i].payload
          ins == generateInstructionsFromPayload(payload)
      IN /\ log[i] = <<StatusEvent(progressStatus(ins)),
                       ExecuteEvent(Device, buildCommand(payload, ins))>>
         /\ Cardinality(ExecuteIdx(i)) = 1
         /\ TerminalIdx(i) = {} /\ SendIdx(i) = {}
         /\ tracker[i] = "none" /\ timers[i] = 0 /\ inflight[i] = 0
         /\ execId[i] = NoExecId /\ probeId[i] = NoExecId
         /\ ~probeFailed[i] /\ absences[i] = 0
         /\ i = watched => probes = 0 /\ delays = 0
         /\ (\A j \in Inv \ {i} : log[j] = <<>>) =>
              nodeStatus = progressStatus(ins)

C16_FailureChangesNoStatus ==
  \A i \in Inv :
    /\ pc[i] = "executing" /\ pc'[i] = "execFailed" =>
         /\ nodeStatus' = nodeStatus
         /\ log'[i] = log[i]
    /\ pc[i] = "execFailed" =>
         /\ Local(i)' = Local(i)
         /\ nodeStatus' # nodeStatus => \E j \in Inv \ {i} : log'[j] # log[j]

C16_ExecuteFailureIsFinal ==
  [](C16_NothingAfterExecuteFailure) /\ [][C16_FailureChangesNoStatus]_vars

\* The execute of a polled action failed after an earlier invocation was
\* done: the node still displays the progress status of the failed one.
C16_Witness ==
  \E i, j \in Inv :
    /\ j < i /\ pc[j] = "done"
    /\ pc[i] = "execFailed" /\ Polled(i)
    /\ nodeStatus = [fill |-> "yellow", shape |-> "dot",
                     text |-> <<"Setting to ", "4", "0">>]

(***************************************************************************)
(* C17: a failed status probe ends the polling of its invocation.  After   *)
(* it no delay timer is armed and no probe issued for the invocation, the  *)
(* "done" status is never displayed for it, its message is never           *)
(* forwarded, and nothing cancels or recovers it: the invocation stays     *)
(* where it is, its last status the progress status, for ever.             *)
(***************************************************************************)
C17_AbortedAfterProbeFailure ==
  \A i \in Inv :
    probeFailed[i] =>
      /\ timers[i] = 0 /\ inflight[i] = 0
      /\ pc[i] = "tracking" /\ tracker[i] # "resolved"
      /\ resolutions[i] = 0 /\ absences[i] = 0
      /\ Len(log[i]) = 2
      /\ log[i][1] = StatusEvent(progressStatus(Resolved(i)))
      /\ TerminalIdx(i) = {} /\ SendIdx(i) = {}

C17_NothingAfterProbeFailure ==
  \A i \in Inv :
    probeFailed[i] =>
      /\ Local(i)' = Local(i)
      /\ i = watched => probes' = probes /\ delays' = delays /\ busy' = busy
      /\ nodeStatus' # nodeStatus => \E j \in Inv \ {i} : log'[j] # log[j]

C17_ProbeFailureAbortsPolling ==
  [](C17_AbortedAfterProbeFailure) /\ [][C17_NothingAfterProbeFailure]_vars

\* The second probe failed; the gateway has finished the execution since,
\* and the node still displays the progress status.
C17_Witness ==
  \E i \in Inv :
    /\ probeFailed[i] /\ i = watched /\ busy = 1 /\ probes = 2
    /\ NewExecId(i) \notin gwPending
    /\ timers[i] = 0 /\ inflight[i] = 0
    /\ nodeStatus = progressStatus(Resolved(i))

(***************************************************************************)
(* C18: the node has one displayed status, which every invocation writes,  *)
(* and the last writer wins: each status call replaces the display         *)
(* whichever invocation made it, and nothing else changes the display.     *)
(* Hence the terminal status of an earlier invocation overwrites the       *)
(* progress status of a later one that is still polling, and a green       *)
(* "done" display does not say that no execution is pending.               *)
(***************************************************************************)
IsStatus(e) == e.ev = "status"
\* The calls the invocation makes in the step.
Appended(i) == SubSeq(log'[i], Len(log[i]) + 1, Len(log'[i]))

C18_StatusCallReplacesDisplay ==
  LET writers == {i \in Inv : SelectSeq(Appended(i), IsStatus) # <<>>}
  IN IF writers = {} THEN nodeStatus' = nodeStatus
     ELSE \E i \in writers :
            LET set == SelectSeq(Appended(i), IsStatus)
            IN /\ writers = {i}
               /\ nodeStatus' = set[Len(set)].status

C18_DisplayedWasWritten ==
  /\ nodeStatus = NoStatus <=> \A i \in Inv : log[i] = <<>>
  /\ nodeStatus # NoStatus =>
       \E i \in Inv : \E k \in DOMAIN log[i] :
         log[i][k] = StatusEvent(nodeStatus)

C18_LastWriterWins ==
  [](C18_DisplayedWasWritten) /\ [][C18_StatusCallReplacesDisplay]_vars

\* The earlier invocation's "done" is displayed over the progress status of
\* the later one, which is still polling an execution the gateway has
\* pending.
C18_Witness ==
  \E i, j \in Inv :
    /\ i < j
    /\ pc[i] = "done" /\ nodeStatus = doneStatus(Resolved(i))
    /\ StatusIdx(j, "yellow") # {}
    /\ pc[j] = "tracking" /\ ~probeFailed[j] /\ timers[j] + inflight[j] = 1
    /\ NewExecId(j) \in gwPending

(***************************************************************************)
(* C19: every status probe of an invocation, at every iteration of its     *)
(* polling loop, carries the execId that the invocation's own execute call *)
(* returned, never that of another invocation, whatever the interleaving;  *)
(* and the message forwarded on completion is the invocation's own.        *)
(***************************************************************************)
C19_ProbesOwnExecution ==
  \A i \in Inv :
    /\ tracker[i] # "none" => execId[i] = NewExecId(i)
    /\ probeId[i] # NoExecId =>
         /\ probeId[i] = execId[i]
         /\ \A j \in Inv \ {i} : probeId[i] # execId[j]
    /\ inflight[i] > 0 => probeId[i] = NewExecId(i)
    /\ \A n \in SendIdx(i) :
         /\ log[i][n].msg = msg[i]
         /\ log[i][n].msg.msgid = i
         /\ \A j \in Inv \ {i} : log[i][n].msg # msg[j]

C19_EveryProbeOwnExecution ==
  \A i \in Inv :
    /\ inflight'[i] > inflight[i] =>
         /\ probeId'[i] = execId[i]
         /\ execId[i] = NewExecId(i)
    /\ execId[i] # NoExecId => execId'[i] = execId[i]
    /\ msg[i] # NoMessage => msg'[i] = msg[i]

C19_ExecutionIdBinding ==
  [](C19_ProbesOwnExecution) /\ [][C19_EveryProbeOwnExecution]_vars

\* Two invocations have a probe in flight at once, each with its own
\* execution id, one of them at a later iteration of its loop.
C19_Witness ==
  \E i, j \in Inv :
    /\ i # j
    /\ inflight[i] = 1 /\ probeId[i] = NewExecId(i)
    /\ inflight[j] = 1 /\ probeId[j] = NewExecId(j)
    /\ probeId[i] # probeId[j]
    /\ i = watched /\ busy >= 1
====
